---- MODULE Spec2Model ----
(***************************************************************************)
(* Model of the cartridge-path comparison job steps:                       *)
(*   CartridgePathComparisonReport.js  (fetch, diff, write the report)     *)
(*   SendSiteCartridgePathDifference.js (collect, e-mail, archive)         *)
(*   mail.js (sendMail), OCAPIServices.js (getToken, callDataOcapi)        *)
(***************************************************************************)
EXTENDS Integers, Sequences, FiniteSets, TLC

(* ---------------------------------------------------------------------- *)
(* Bounds                                                                 *)
(* ---------------------------------------------------------------------- *)
MaxLen == 3
MaxHosts == 4
MaxReports == 2

(* ---------------------------------------------------------------------- *)
(* Small helpers                                                          *)
(* ---------------------------------------------------------------------- *)
Range(s) == {s[i] : i \in 1..Len(s)}

SeqsUpTo(S, n) == UNION {[1..k -> S] : k \in 0..n}

(* Array.prototype.filter keeping, left to right, the items outside a set *)
RECURSIVE FilterOut(_, _)
FilterOut(list, excluded) ==
    IF list = <<>> THEN <<>>
    ELSE IF Head(list) \notin excluded
         THEN <<Head(list)>> \o FilterOut(Tail(list), excluded)
         ELSE FilterOut(Tail(list), excluded)

(* ---------------------------------------------------------------------- *)
(* CartridgePathComparisonReport.js: pure helpers                         *)
(* ---------------------------------------------------------------------- *)
Cartridges == {"a", "b", "c"}

(* String.prototype.trim on the segments the model uses *)
Trim(c) ==
    CASE c = " a"  -> "a"
      [] c = "b "  -> "b"
      [] c = " c " -> "c"
      [] c = " "   -> ""
      [] OTHER     -> c

(* A colon-separated string is held as the sequence of its segments, which is *)
(* what split(':') returns; the empty string is the one segment "".           *)
normalizeCartridges(cartridgeStr) ==
    FilterOut([i \in 1..Len(cartridgeStr) |-> Trim(cartridgeStr[i])], {""})

(* a copy-paste slip: both filters test against setB *)
compareCartridgesSameSet(listA, listB) ==
    LET setB == Range(listB)
    IN  [onlyInA |-> FilterOut(listA, setB),
         onlyInB |-> FilterOut(listB, setB)]

compareCartridges(listA, listB) ==
    LET setA == Range(listA)
        setB == Range(listB)
    IN  [onlyInA |-> FilterOut(listA, setB),
         onlyInB |-> FilterOut(listB, setA)]

(* ---------------------------------------------------------------------- *)
(* Values of the comparison step                                          *)
(* ---------------------------------------------------------------------- *)
Hosts == {"h1", "h2", "h3"}

(* the host list of a run: a prefix of this sequence *)
HostCycle == <<"h1", "h2", "h3", "h1", "h2", "h3">>

(* raw `cartridges` strings, as their ':'-separated segments *)
RawA == <<"a", "b", "c">>
RawB == <<"b ", "", "d", "b ">>

(* args.hostInstances: absent (undefined or ''), a string that is no JSON, *)
(* the JSON of a number, or the JSON of an array of host names             *)
HostInstancesValues ==
    {[kind |-> k, v |-> <<>>] : k \in {"none", "garbage", "number"}}
    \cup {[kind |-> "array", v |-> SubSeq(HostCycle, 1, n)] : n \in 0..MaxHosts}

(* safeParseArray: JSON.parse of the string, [] when that throws (also for *)
(* an undefined string, whose .replace throws inside the try)              *)
safeParseArray(str) ==
    CASE str.kind = "array"  -> [isArray |-> TRUE,  v |-> str.v]
      [] str.kind = "number" -> [isArray |-> FALSE, v |-> <<>>]
      [] OTHER               -> [isArray |-> TRUE,  v |-> <<>>]

(* the result of the service call behind callDataOcapi *)
RNull      == [isNull |-> TRUE,  ok |-> FALSE, hasObject |-> FALSE, cartridges |-> <<>>]
RNotOk     == [isNull |-> FALSE, ok |-> FALSE, hasObject |-> FALSE, cartridges |-> <<>>]
RNoObject  == [isNull |-> FALSE, ok |-> TRUE,  hasObject |-> FALSE, cartridges |-> <<>>]
RNoCart    == [isNull |-> FALSE, ok |-> TRUE,  hasObject |-> TRUE,  cartridges |-> <<>>]
ROk(raw)   == [isNull |-> FALSE, ok |-> TRUE,  hasObject |-> TRUE,  cartridges |-> raw]
Replies    == {RNull, RNotOk, RNoObject, RNoCart, ROk(RawA), ROk(RawB)}

(* a host the reply table does not know (hosts[j + 1] past the end) cannot *)
(* be reached: the service call throws and callDataOcapi returns null      *)
ReplyOf(resp, host) == IF host \in DOMAIN resp THEN resp[host] ELSE RNull

(* callDataOcapi: the service result, or null when it is empty *)
callDataOcapi(reply) == reply

(* OCAPIServices.getToken: null for a missing serviceName (thrown and  *)
(* caught), else result.object of the token call ("" stands for null)  *)
getToken(serviceName, tokenReply) ==
    IF serviceName = "" THEN "" ELSE tokenReply

(* fetchCartridges: reading .ok of a null response throws; a response    *)
(* without ok, object or cartridges yields a Status object; otherwise    *)
(* the normalized list                                                   *)
fetchCartridges(reply) ==
    LET response == callDataOcapi(reply)
    IN  IF response.isNull
        THEN [tag |-> "throw", v |-> <<>>]
        ELSE IF ~response.ok \/ ~response.hasObject
                \/ response.cartridges = <<>> \/ response.cartridges = <<"">>
             THEN [tag |-> "status", v |-> <<>>]
             ELSE [tag |-> "list", v |-> normalizeCartridges(response.cartridges)]

(* JavaScript truthiness of what fetchCartridges returns: arrays and *)
(* Status objects are truthy, null is not                            *)
Truthy(c) == c.tag \in {"list", "status"}

(* the two entries pushed for a pair, lines 132-140 *)
pairEntriesSwapped(host1, host2, diff) ==
    << [hostInstance |-> host1, cartridgediff |-> diff.onlyInB],
       [hostInstance |-> host2, cartridgediff |-> diff.onlyInA] >>

pairEntries(host1, host2, diff) ==
    << [hostInstance |-> host1, cartridgediff |-> diff.onlyInA],
       [hostInstance |-> host2, cartridgediff |-> diff.onlyInB] >>

(* the for loop of execute, from index j (1-based) on.                    *)
(*   thrown: an exception left the loop; fetched: the hosts fetched so far *)
RECURSIVE ComparePairs(_, _, _)
ComparePairs(hosts, j, resp) ==
    IF j > Len(hosts)
    THEN [thrown |-> FALSE, elements |-> <<>>, fetched |-> <<>>]
    ELSE
      LET host1 == hosts[j]
          host2 == IF j + 1 <= Len(hosts) THEN hosts[j + 1] ELSE "undefined"
          cartridges1 == fetchCartridges(ReplyOf(resp, host1))
          cartridges2 == fetchCartridges(ReplyOf(resp, host2))
      IN  IF cartridges1.tag = "throw"
          THEN [thrown |-> TRUE, elements |-> <<>>, fetched |-> <<host1>>]
          ELSE IF cartridges2.tag = "throw"
          THEN [thrown |-> TRUE, elements |-> <<>>, fetched |-> <<host1, host2>>]
          ELSE IF Truthy(cartridges1) /\ Truthy(cartridges2)
          THEN (* compareCartridges on a Status object: new Set(status) or *)
               (* status.filter throws a TypeError                         *)
               IF cartridges1.tag # "list" \/ cartridges2.tag # "list"
               THEN [thrown |-> TRUE, elements |-> <<>>, fetched |-> <<host1, host2>>]
               ELSE LET diff == compareCartridges(cartridges1.v, cartridges2.v)
                        more == ComparePairs(hosts, j + 2, resp)
                    IN  [thrown   |-> more.thrown,
                         elements |-> pairEntries(host1, host2, diff) \o more.elements,
                         fetched  |-> <<host1, host2>> \o more.fetched]
          ELSE (* log.warn('Skipping host pair ...') *)
               LET more == ComparePairs(hosts, j + 2, resp)
               IN  [thrown   |-> more.thrown,
                    elements |-> more.elements,
                    fetched  |-> <<host1, host2>> \o more.fetched]

(* line 93 *)
missingArguments(args) ==
    args.isNull \/ args.hostInstances.kind = "none" \/ args.ocapiVersion = ""

(* line 97 with the test lost *)
stepDisabledIgnored(args) == FALSE

(* line 97 *)
stepDisabled(args) == args.disableStep

(* line 104 without the parity test *)
invalidHostCountNoParity(hosts) ==
    IF hosts.isArray THEN Len(hosts.v) < 2 ELSE TRUE

(* line 104; the length of a non-array is undefined, and undefined % 2 is NaN *)
invalidHostCount(hosts) ==
    IF hosts.isArray
    THEN Len(hosts.v) < 2 \/ Len(hosts.v) % 2 # 0
    ELSE TRUE

(* ---------------------------------------------------------------------- *)
(* Files                                                                  *)
(* ---------------------------------------------------------------------- *)
Day1 == "20261104"
Sites == {"S1", "S2"}

(* 'cartridge_difference_' + formattedDate + '_' + siteId + '.json' *)
fileName(formattedDate, siteId) ==
    [prefix |-> "cartridge_difference_", date |-> formattedDate,
     rest |-> siteId, ext |-> ".json"]

EmptyReport == [siteId |-> "", elementsToReport |-> <<>>]

(* JSON.stringify(structuredDiff, null, 4): the text of a report *)
JSONstringify(report) == [kind |-> "json", data |-> report]

(* what is left of a file whose write broke off: no JSON text *)
Garbage == [kind |-> "garbage", data |-> EmptyReport]

(* JSON.parse of a file's text: throws on text that is no JSON *)
JSONparse(content) ==
    IF content.kind = "json"
    THEN [ok |-> TRUE, data |-> content.data]
    ELSE [ok |-> FALSE, data |-> EmptyReport]

(* the file system after lines 147-168: mkdirs when the folder is absent, *)
(* then new FileWriter (fault "open": it throws, the file is untouched)   *)
(* and write (fault "write": it throws after the file was truncated).     *)
(* A working-folder path that is a plain file makes new FileWriter throw. *)
writeReport(report, fault, fk, wf, date, siteId, id) ==
    LET name == fileName(date, siteId)
        put(content) == [n \in DOMAIN wf \cup {name} |->
                            IF n = name THEN [id |-> id, content |-> content]
                            ELSE wf[n]]
    IN  CASE fk = "notdir"   -> [folderKind |-> fk,    wfiles |-> wf, wrote |-> FALSE]
          [] fault = "open"  -> [folderKind |-> "dir", wfiles |-> wf, wrote |-> FALSE]
          [] fault = "write" -> [folderKind |-> "dir", wfiles |-> put(Garbage),
                                 wrote |-> TRUE]
          [] OTHER           -> [folderKind |-> "dir",
                                 wfiles |-> put(JSONstringify(report)),
                                 wrote |-> TRUE]

(* execute of CartridgePathComparisonReport.js, as the values it leaves: *)
(* status "THROWN" is an exception that left execute                     *)
execute(args, env, fk, wf, date, id) ==
    LET early(st, code, calls) ==
            [status |-> st, code |-> code, tokenCalls |-> calls,
             fetched |-> <<>>, report |-> EmptyReport, wrote |-> FALSE,
             folderKind |-> fk, wfiles |-> wf]
    IN
    IF missingArguments(args) THEN early("ERROR", "ERROR", 0)
    ELSE IF stepDisabled(args) THEN early("OK", "DISABLED", 0)
    ELSE
      LET hosts == safeParseArray(args.hostInstances)
      IN
      IF invalidHostCount(hosts) THEN early("ERROR", "ERROR", 0)
      ELSE
        LET token == getToken(args.serviceName, env.tokenReply)
        IN
        IF token = "" THEN early("ERROR", "ERROR", 1)
        ELSE
          LET loop == ComparePairs(hosts.v, 1, env.resp)
              structuredDiff == [siteId |-> env.siteId,
                                 elementsToReport |-> loop.elements]
              out == writeReport(structuredDiff, env.fault, fk, wf, date,
                                 env.siteId, id)
          IN
          IF loop.thrown
          THEN [status |-> "THROWN", code |-> "", tokenCalls |-> 1,
                fetched |-> loop.fetched, report |-> EmptyReport,
                wrote |-> FALSE, folderKind |-> fk, wfiles |-> wf]
          ELSE [status |-> "OK", code |-> "OK", tokenCalls |-> 1,
                fetched |-> loop.fetched, report |-> structuredDiff,
                wrote |-> out.wrote, folderKind |-> out.folderKind,
                wfiles |-> out.wfiles]

(* ---------------------------------------------------------------------- *)
(* SendSiteCartridgePathDifference.js and mail.js                         *)
(* ---------------------------------------------------------------------- *)
Day0 == "20261103"

(* the archive directory, an entry of the working folder *)
ArchiveName == [prefix |-> "archive", date |-> "", rest |-> "", ext |-> ""]

(* files of the working folder that no run of the day wrote: a report of the *)
(* day before, a text that is no JSON under a name of today, a scratch file  *)
YesterdayName == fileName(Day0, "S1")
StrayName     == fileName(Day1, "S0")
ScratchName   == [prefix |-> "cartridge_difference_", date |-> Day1,
                  rest |-> "S1", ext |-> ".tmp"]

(* every name of the model, in the order of an ascending directory listing *)
AllNames == << ArchiveName, YesterdayName, StrayName, fileName(Day1, "S1"),
               ScratchName, fileName(Day1, "S2") >>

Reverse(s) == [i \in 1..Len(s) |-> s[Len(s) + 1 - i]]

(* workingFolder.listFiles(): the entries in one of the two orders *)
listFiles(wf, archiveExists, order) ==
    LET present(n) == n \in DOMAIN wf \/ (n = ArchiveName /\ archiveExists)
        asc == SelectSeq(AllNames, present)
    IN  IF order = "asc" THEN asc ELSE Reverse(asc)

(* lines 53 and 129: fileName.startsWith('cartridge_difference_' + date) *)
(* && fileName.endsWith('.json')                                         *)
(* lines 53 and 129 with the date left out of the prefix *)
matchesAnyDay(name, formattedDate) ==
    /\ name.prefix = "cartridge_difference_"
    /\ name.ext = ".json"

matchesToday(name, formattedDate) ==
    /\ name.prefix = "cartridge_difference_"
    /\ name.date = formattedDate
    /\ name.ext = ".json"

(* lines 53-63: the files of the listing a FileReader is opened on *)
filesRead(files, formattedDate) ==
    SelectSeq(files, LAMBDA n : matchesToday(n, formattedDate))

(* lines 50-77 stopping at the first file that does not parse *)
RECURSIVE collectAbortOnError(_, _, _)
collectAbortOnError(files, wf, formattedDate) ==
    IF files = <<>> THEN <<>>
    ELSE LET fileName_ == Head(files)
         IN  IF matchesToday(fileName_, formattedDate)
             THEN LET parsed == JSONparse(wf[fileName_].content)
                  IN  IF parsed.ok
                      THEN <<[name |-> fileName_, id |-> wf[fileName_].id,
                              data |-> parsed.data]>>
                           \o collectAbortOnError(Tail(files), wf, formattedDate)
                      ELSE <<>>
             ELSE collectAbortOnError(Tail(files), wf, formattedDate)

(* lines 50-77: read and parse every matching file of the listing, keep what *)
(* parses (with the file it came from)                                       *)
RECURSIVE collect(_, _, _)
collect(files, wf, formattedDate) ==
    IF files = <<>> THEN <<>>
    ELSE LET fileName_ == Head(files)
         IN  IF matchesToday(fileName_, formattedDate)
             THEN LET parsed == JSONparse(wf[fileName_].content)
                  IN  IF parsed.ok
                      THEN <<[name |-> fileName_, id |-> wf[fileName_].id,
                              data |-> parsed.data]>>
                           \o collect(Tail(files), wf, formattedDate)
                      ELSE collect(Tail(files), wf, formattedDate)
             ELSE collect(Tail(files), wf, formattedDate)

(* lines 85-89 *)
maxLen(siteData) ==
    LET e == siteData.elementsToReport
        lenA == IF Len(e) >= 1 THEN Len(e[1].cartridgediff) ELSE 0
        lenB == IF Len(e) >= 2 THEN Len(e[2].cartridgediff) ELSE 0
    IN  IF lenA >= lenB THEN lenA ELSE lenB

annotate(siteData) ==
    [siteId |-> siteData.siteId, elementsToReport |-> siteData.elementsToReport,
     maxLen |-> maxLen(siteData)]

(* lines 92-96 looking, like maxLen, at the first two entries only *)
hasDiffDataFirstTwo(combinedResults) ==
    \E i \in 1..Len(combinedResults) :
        \E j \in 1..Len(combinedResults[i].elementsToReport) :
            j <= 2 /\ Len(combinedResults[i].elementsToReport[j].cartridgediff) > 0

(* lines 92-96 *)
hasDiffData(combinedResults) ==
    \E i \in 1..Len(combinedResults) :
        \E j \in 1..Len(combinedResults[i].elementsToReport) :
            Len(combinedResults[i].elementsToReport[j].cartridgediff) > 0

(* line 79 widened: nothing to report when no report shows a difference *)
noValidDataOrNoDiff(combinedResults) ==
    Len(combinedResults) = 0 \/ ~hasDiffData(combinedResults)

(* line 79 *)
noValidData(combinedResults) == Len(combinedResults) = 0

(* pdict of the notification step *)
EmailSubject == "Cartridge path differences"
EmailSubjectWithoutDiff == "No cartridge path differences"
ConfiguredTemplate == "mail/cartridgeDifference.isml"
NotFoundTemplate == "mail/utilitiesDifferenceNotFound.isml"

(* mail.js sendMail: every exception (template, render, mail.send) is caught *)
(* inside and turned into the return value false                             *)
sendMail(subject, templatePath, contextObject, mailFault) ==
    [returned |-> (mailFault = "none"),
     sent     |-> (mailFault = "none"),
     mail     |-> [subject |-> subject, template |-> templatePath,
                   context |-> contextObject]]

(* lines 127-133: rename every matching file of the listing into archive/. *)
(* renameTo onto an existing archive entry either fails (returns false,    *)
(* which nobody reads) or replaces that entry, as the platform decides.    *)
RECURSIVE archiveFiles(_, _, _, _, _)
archiveFiles(files, wf, af, formattedDate, replaces) ==
    IF files = <<>> THEN [wfiles |-> wf, afiles |-> af]
    ELSE LET name == Head(files)
         IN  IF matchesToday(name, formattedDate) /\ name \in DOMAIN wf
                /\ (name \notin DOMAIN af \/ replaces)
             THEN archiveFiles(Tail(files),
                               [n \in DOMAIN wf \ {name} |-> wf[n]],
                               [n \in DOMAIN af \cup {name} |->
                                    IF n = name THEN wf[name] ELSE af[n]],
                               formattedDate, replaces)
             ELSE archiveFiles(Tail(files), wf, af, formattedDate, replaces)

NoMail == [subject |-> "", template |-> "", context |-> <<>>]

(* execute of SendSiteCartridgePathDifference.js, as the values it leaves *)
notifyExecute(pdict, env, fk, wf, ar, formattedDate) ==
    LET early(why) ==
            [status |-> "OK", reached |-> why, files |-> <<>>, read |-> <<>>,
             collected |-> <<>>,
             combinedResults |-> <<>>, hasDiffData |-> FALSE,
             sendCalled |-> FALSE, sent |-> FALSE, mail |-> NoMail,
             wfiles |-> wf, archive |-> ar]
        files == listFiles(wf, ar.exists, env.order)
        collected == collect(files, wf, formattedDate)
        combinedResults == [i \in 1..Len(collected) |-> annotate(collected[i].data)]
        diff == hasDiffData(combinedResults)
        emailSubject == IF diff THEN pdict.emailSubject ELSE pdict.emailSubjectWithoutDiff
        templateToUse == IF diff THEN pdict.template ELSE NotFoundTemplate
        mailed == sendMail(emailSubject, templateToUse,
                           IF diff THEN combinedResults ELSE <<>>, env.mailFault)
        moved == archiveFiles(files, wf, ar.files, formattedDate, env.renameReplaces)
        base == [status |-> "OK", reached |-> "dispatch", files |-> files,
                 read |-> filesRead(files, formattedDate),
                 collected |-> collected, combinedResults |-> combinedResults, hasDiffData |-> diff,
                 sendCalled |-> FALSE, sent |-> FALSE, mail |-> NoMail,
                 wfiles |-> wf, archive |-> ar]
    IN
    IF fk # "dir" THEN early("nofolder")
    ELSE IF Len(files) = 0 THEN early("empty")
    ELSE IF noValidData(combinedResults)
         THEN [early("noreports") EXCEPT !.files = files,
                                         !.read = filesRead(files, formattedDate)]
    ELSE IF ~pdict.hasEmailTo
         THEN (* pdict.emailTo.split throws inside the try *)
              [base EXCEPT !.status = "ERROR"]
    ELSE [base EXCEPT !.sendCalled = TRUE, !.sent = mailed.sent,
                      !.mail = mailed.mail, !.wfiles = moved.wfiles,
                      !.archive = [exists |-> TRUE, files |-> moved.afiles]]

(* ---------------------------------------------------------------------- *)
(* State                                                                  *)
(* ---------------------------------------------------------------------- *)
VARIABLES
    folderKind,       \* IMPEX/src/<workingfolder>: "absent", "notdir" or "dir"
    wfiles,           \* the files of the working folder: name -> [id, content]
    archive,          \* <workingfolder>/archive: [exists, files]
    ntf,              \* what the last notification run returned and did
    consumed,         \* the files a notification run aggregated and mailed
    reread,           \* the files aggregated and mailed by a second run
    nextId,           \* identity of the next file written
    today,            \* the date `new Date()` formats to
    cmp,              \* what the last comparison run returned and did
    cargs, cenv,      \* the arguments and environment of the run of SpecCompare
    dA, dB, dOut      \* compareCartridges applied to two lists

diffVars == <<dA, dB, dOut>>
cmpInputs == <<cargs, cenv>>
fsVars == <<folderKind, wfiles, nextId, today>>
ntfVars == <<archive, ntf, consumed, reread>>
vars == <<folderKind, wfiles, archive, ntf, consumed, reread, nextId, today,
          cmp, cargs, cenv, dA, dB, dOut>>

NoDiff == [done |-> FALSE, onlyInA |-> <<>>, onlyInB |-> <<>>]

NoFiles == [n \in {} |-> 0]

CmpIdle == [status |-> "idle", code |-> "", tokenCalls |-> 0, fetched |-> <<>>,
            report |-> EmptyReport, wrote |-> FALSE]

ArgsNull == [isNull |-> TRUE, hostInstances |-> [kind |-> "none", v |-> <<>>],
             ocapiVersion |-> "", disableStep |-> FALSE, serviceName |-> ""]

NoEnv == [tokenReply |-> "", resp |-> NoFiles, siteId |-> "S1", fault |-> "none",
          folderKind |-> "absent", wfiles |-> NoFiles]

NoArchive == [exists |-> FALSE, files |-> NoFiles]

NtfIdle == [status |-> "idle", reached |-> "", hasEmailTo |-> FALSE,
            mailFault |-> "none", files |-> <<>>, read |-> <<>>,
            before |-> NoFiles, archiveBefore |-> NoArchive,
            after |-> NoFiles, archiveAfter |-> NoArchive,
            folderBefore |-> "absent", collected |-> <<>>,
            combinedResults |-> <<>>, hasDiffData |-> FALSE,
            sendCalled |-> FALSE, sent |-> FALSE, mail |-> NoMail]

(* the comparison step run once with the given arguments and environment *)
RunComparison(args, env) ==
    \E r \in {execute(args, env, folderKind, wfiles, today, nextId)} :
        /\ cmp' = [status |-> r.status, code |-> r.code,
                   tokenCalls |-> r.tokenCalls, fetched |-> r.fetched,
                   report |-> r.report, wrote |-> r.wrote]
        /\ folderKind' = r.folderKind
        /\ wfiles' = r.wfiles
        /\ nextId' = IF r.wrote THEN nextId + 1 ELSE nextId
        /\ UNCHANGED today

(* ---------------------------------------------------------------------- *)
(* SpecDiff: compareCartridges on every pair of bounded lists             *)
(* ---------------------------------------------------------------------- *)
InitDiff ==
    /\ dA \in SeqsUpTo(Cartridges, MaxLen)
    /\ dB \in SeqsUpTo(Cartridges, MaxLen)
    /\ dOut = NoDiff
    /\ folderKind = "absent" /\ wfiles = NoFiles /\ nextId = 1 /\ today = Day1
    /\ cmp = CmpIdle /\ cargs = ArgsNull /\ cenv = NoEnv
    /\ archive = NoArchive /\ ntf = NtfIdle /\ consumed = {} /\ reread = {}

ApplyCompare ==
    /\ ~dOut.done
    /\ dOut' = [done |-> TRUE,
                onlyInA |-> compareCartridges(dA, dB).onlyInA,
                onlyInB |-> compareCartridges(dA, dB).onlyInB]
    /\ UNCHANGED <<dA, dB, fsVars, ntfVars, cmp, cmpInputs>>

NextDiff == ApplyCompare

SpecDiff == InitDiff /\ [][NextDiff]_vars

(* ---------------------------------------------------------------------- *)
(* SpecCompare: one run of the comparison step on every bounded input     *)
(* ---------------------------------------------------------------------- *)
CmpArgs ==
    {ArgsNull} \cup
    [isNull : {FALSE}, hostInstances : HostInstancesValues,
     ocapiVersion : {"", "v23_2"}, disableStep : BOOLEAN,
     serviceName : {"", "OCAPI.token"}]

(* a report of an earlier run of the same day *)
OldReport == [siteId |-> "S1",
              elementsToReport |-> <<[hostInstance |-> "h9", cartridgediff |-> <<"z">>]>>]

OldFiles == [n \in {fileName(Day1, "S1")} |->
                [id |-> 0, content |-> JSONstringify(OldReport)]]

CmpEnvs(args) ==
    {[tokenReply |-> t, resp |-> r, siteId |-> "S1", fault |-> f,
      folderKind |-> fs[1], wfiles |-> fs[2]] :
        t \in {"", "tok"},
        r \in [Range(args.hostInstances.v) -> Replies],
        f \in {"none", "open", "write"},
        fs \in {<<"absent", NoFiles>>, <<"notdir", NoFiles>>, <<"dir", OldFiles>>}}

InitCompare ==
    /\ cargs \in CmpArgs
    /\ cenv \in CmpEnvs(cargs)
    /\ folderKind = cenv.folderKind
    /\ wfiles = cenv.wfiles
    /\ nextId = 1
    /\ today = Day1
    /\ cmp = CmpIdle
    /\ archive = NoArchive /\ ntf = NtfIdle /\ consumed = {} /\ reread = {}
    /\ dA = <<>> /\ dB = <<>> /\ dOut = NoDiff

CompareOnce ==
    /\ cmp.status = "idle"
    /\ RunComparison(cargs, cenv)
    /\ UNCHANGED <<cmpInputs, diffVars, ntfVars>>

NextCompare == CompareOnce

SpecCompare == InitCompare /\ [][NextCompare]_vars

(* ---------------------------------------------------------------------- *)
(* Spec: comparison runs and notification runs on one working folder      *)
(* ---------------------------------------------------------------------- *)
RespSame == [h \in Hosts |-> ROk(RawA)]
RespTail == [h \in Hosts |-> IF h = "h3" THEN ROk(RawB) ELSE ROk(RawA)]

PipeArgs ==
    [isNull : {FALSE},
     hostInstances : {[kind |-> "array", v |-> <<"h1", "h2", "h3", "h1">>]},
     ocapiVersion : {"v23_2"}, disableStep : {FALSE},
     serviceName : {"OCAPI.token"}]

PipeEnvs ==
    {[tokenReply |-> "tok", resp |-> r, siteId |-> site, fault |-> f,
      folderKind |-> "absent", wfiles |-> NoFiles] :
        r \in {RespSame, RespTail}, site \in Sites,
        f \in {"none", "write"}}

Pdicts ==
    [hasEmailTo : BOOLEAN, emailSubject : {EmailSubject},
     emailSubjectWithoutDiff : {EmailSubjectWithoutDiff},
     template : {ConfiguredTemplate}]

NotifyEnvs ==
    [order : {"asc", "desc"}, mailFault : {"none", "send"},
     renameReplaces : BOOLEAN]

YesterdayReport ==
    [siteId |-> "S1",
     elementsToReport |-> <<[hostInstance |-> "h1", cartridgediff |-> <<"z">>]>>]

StrayFiles ==
    [n \in {YesterdayName, StrayName, ScratchName} |->
        CASE n = YesterdayName -> [id |-> -1, content |-> JSONstringify(YesterdayReport)]
          [] n = StrayName     -> [id |-> -2, content |-> Garbage]
          [] OTHER             -> [id |-> -3, content |-> Garbage]]

InitialFolders ==
    {<<"absent", NoFiles>>, <<"notdir", NoFiles>>}
    \cup {<<"dir", [n \in S |-> StrayFiles[n]]>> :
            S \in {{}, {StrayName}, {YesterdayName, StrayName, ScratchName}}}

Init ==
    /\ \E f \in InitialFolders : folderKind = f[1] /\ wfiles = f[2]
    /\ archive = NoArchive
    /\ nextId = 1
    /\ today = Day1
    /\ cmp = CmpIdle /\ ntf = NtfIdle
    /\ consumed = {} /\ reread = {}
    /\ cargs = ArgsNull /\ cenv = NoEnv
    /\ dA = <<>> /\ dB = <<>> /\ dOut = NoDiff

CompareStep ==
    /\ nextId <= MaxReports
    /\ \E args \in PipeArgs, env \in PipeEnvs : RunComparison(args, env)
    /\ UNCHANGED <<ntfVars, cmpInputs, diffVars>>

(* the notification step run once with the given parameters and environment *)
RunNotification(pdict, env) ==
    \E r \in {notifyExecute(pdict, env, folderKind, wfiles, archive, today)} :
      LET mailed == IF r.sent
                    THEN {[id |-> r.collected[i].id, name |-> r.collected[i].name] :
                              i \in 1..Len(r.collected)}
                    ELSE {}
      IN
        /\ ntf' = [status |-> r.status, reached |-> r.reached,
                   hasEmailTo |-> pdict.hasEmailTo, mailFault |-> env.mailFault,
                   files |-> r.files, read |-> r.read,
                   before |-> wfiles, archiveBefore |-> archive,
                   after |-> r.wfiles, archiveAfter |-> r.archive,
                   folderBefore |-> folderKind,
                   collected |-> r.collected,
                   combinedResults |-> r.combinedResults,
                   hasDiffData |-> r.hasDiffData, sendCalled |-> r.sendCalled,
                   sent |-> r.sent, mail |-> r.mail]
        /\ wfiles' = r.wfiles
        /\ archive' = r.archive
        /\ consumed' = consumed \cup mailed
        /\ reread' = reread \cup (mailed \cap consumed)
        /\ UNCHANGED <<folderKind, nextId, today>>

NotifyStep ==
    /\ \E pdict \in Pdicts, env \in NotifyEnvs : RunNotification(pdict, env)
    /\ UNCHANGED <<cmp, cmpInputs, diffVars>>

Next == CompareStep \/ NotifyStep

Spec == Init /\ [][Next]_vars

(* ---------------------------------------------------------------------- *)
(* C7                                                                     *)
(* ---------------------------------------------------------------------- *)
Occurs(x, list) == \E i \in 1..Len(list) : list[i] = x

(* the elements of list that do not occur in other, in list's order, with *)
(* duplicates kept                                                        *)
NotIn(list, other) == SelectSeq(list, LAMBDA x : ~Occurs(x, other))

\* C7: compareCartridges(A, B).onlyInA is exactly the subsequence of A whose
\* elements do not occur in B (order and duplicates kept), onlyInB the same
\* with A and B exchanged; so no element of onlyInA occurs in B, none of
\* onlyInB occurs in A, and comparing a list with itself gives two empty fields.
C7_CompareIsOrderedDifference ==
    dOut.done =>
        /\ dOut.onlyInA = NotIn(dA, dB)
        /\ dOut.onlyInB = NotIn(dB, dA)
        /\ \A i \in 1..Len(dOut.onlyInA) : ~Occurs(dOut.onlyInA[i], dB)
        /\ \A i \in 1..Len(dOut.onlyInB) : ~Occurs(dOut.onlyInB[i], dA)
        /\ (dA = dB => dOut.onlyInA = <<>> /\ dOut.onlyInB = <<>>)

\* witness of C7: a comparison whose first list holds a duplicated element
\* absent from the second, and whose second list has an element of its own
C7_Witness ==
    /\ dOut.done
    /\ dA = <<"a", "b", "a">>
    /\ dB = <<"c", "b">>
    /\ dOut.onlyInA = <<"a", "a">>
    /\ dOut.onlyInB = <<"c">>

(* ---------------------------------------------------------------------- *)
(* Claims about one run of the comparison step (SpecCompare)               *)
(* ---------------------------------------------------------------------- *)
CmpDone == cmp.status # "idle"

(* the list the hostInstances argument parses to *)
ParsedHosts == IF cargs.hostInstances.kind = "array" THEN cargs.hostInstances.v ELSE <<>>

ParsesToList == cargs.hostInstances.kind \in {"none", "garbage", "array"}

RequiredArgsPresent ==
    ~cargs.isNull /\ cargs.hostInstances.kind # "none" /\ cargs.ocapiVersion # ""

ValidHostList ==
    /\ cargs.hostInstances.kind = "array"
    /\ Len(ParsedHosts) >= 2
    /\ Len(ParsedHosts) % 2 = 0

TokenObtained == cargs.serviceName # "" /\ cenv.tokenReply # ""

(* the run gets as far as the loop over the host pairs *)
ReachesLoop ==
    RequiredArgsPresent /\ ~cargs.disableStep /\ ValidHostList /\ TokenObtained

(* the service call returned null, or a response with no ok flag, no object *)
(* or no cartridges                                                         *)
FetchFails(h) ==
    LET r == cenv.resp[h]
    IN  r.isNull \/ ~r.ok \/ ~r.hasObject \/ r.cartridges \in {<<>>, <<"">>}

CartridgesOf(h) == normalizeCartridges(cenv.resp[h].cartridges)

NoEffects ==
    /\ cmp.tokenCalls = 0
    /\ cmp.fetched = <<>>
    /\ ~cmp.wrote
    /\ folderKind = cenv.folderKind
    /\ wfiles = cenv.wfiles

WriteCanSucceed == cenv.fault = "none" /\ cenv.folderKind # "notdir"

TodaysFile == fileName(today, cenv.siteId)

ReportOnDisk(report) ==
    /\ folderKind = "dir"
    /\ TodaysFile \in DOMAIN wfiles
    /\ wfiles[TodaysFile].content = [kind |-> "json", data |-> report]

(* the entries of the pairs from index j on, the pairs with a failed fetch *)
(* left out                                                                *)
RECURSIVE EntriesOfGoodPairs(_, _)
EntriesOfGoodPairs(hosts, j) ==
    IF j > Len(hosts) THEN <<>>
    ELSE IF FetchFails(hosts[j]) \/ FetchFails(hosts[j + 1])
         THEN EntriesOfGoodPairs(hosts, j + 2)
         ELSE << [hostInstance |-> hosts[j],
                  cartridgediff |-> NotIn(CartridgesOf(hosts[j]), CartridgesOf(hosts[j + 1]))],
                 [hostInstance |-> hosts[j + 1],
                  cartridgediff |-> NotIn(CartridgesOf(hosts[j + 1]), CartridgesOf(hosts[j]))] >>
              \o EntriesOfGoodPairs(hosts, j + 2)

\* C1: when fetchCartridges fails for a host of a pair, that pair is skipped
\* (no entry for either of its hosts), the loop goes on to every remaining
\* pair (every host is fetched), the report is still written and the step
\* returns OK: the failure never aborts the run or escapes as a fault.
C1_FailedPairIsSkipped ==
    (CmpDone /\ ReachesLoop /\ \E i \in 1..Len(ParsedHosts) : FetchFails(ParsedHosts[i]))
    => /\ cmp.status = "OK"
       /\ cmp.fetched = ParsedHosts
       /\ cmp.report.elementsToReport = EntriesOfGoodPairs(ParsedHosts, 1)
       /\ (WriteCanSucceed => ReportOnDisk(cmp.report))

\* C4 as stated: whenever disableStep is true, whatever the other keys hold,
\* the step returns OK with code DISABLED and requests no token, fetches no
\* host and writes no file.
C4_DisabledWhateverTheOtherKeys ==
    (CmpDone /\ ~cargs.isNull /\ cargs.disableStep)
    => cmp.status = "OK" /\ cmp.code = "DISABLED" /\ NoEffects

\* C4 as amended: with disableStep true and hostInstances and ocapiVersion both
\* present, the step returns OK with code DISABLED; with disableStep true and
\* one of them absent it returns ERROR (missing arguments); in both cases it
\* requests no token, fetches no host and writes no file.
C4_DisabledWithRequiredArgs ==
    (CmpDone /\ ~cargs.isNull /\ cargs.disableStep)
    => /\ NoEffects
       /\ (RequiredArgsPresent => cmp.status = "OK" /\ cmp.code = "DISABLED")
       /\ (~RequiredArgsPresent => cmp.status = "ERROR")

\* witness of C4: a disabled run whose other arguments would have let it
\* fetch and write (valid host list, token obtained, good replies)
C4_Witness ==
    /\ CmpDone /\ cargs.disableStep /\ RequiredArgsPresent
    /\ ValidHostList /\ TokenObtained /\ WriteCanSucceed
    /\ \A i \in 1..Len(ParsedHosts) : ~FetchFails(ParsedHosts[i])
    /\ cmp.status = "OK" /\ cmp.code = "DISABLED"

BadHostList ==
    /\ ~cargs.isNull
    /\ ParsesToList
    /\ (Len(ParsedHosts) < 2 \/ Len(ParsedHosts) % 2 # 0)

\* C5 as stated: when hostInstances parses to a list of odd length or of
\* length below 2, the step returns ERROR and requests no token, fetches no
\* host and creates or overwrites no file.
C5_BadHostListIsError ==
    (CmpDone /\ BadHostList) => cmp.status = "ERROR" /\ NoEffects

\* C5 as amended: when hostInstances parses to a list of odd length or of
\* length below 2, the step requests no token, fetches no host and creates or
\* overwrites no file, and it returns ERROR unless disableStep is true with
\* hostInstances and ocapiVersion present, where it returns OK/DISABLED.
C5_BadHostListNoPartialRun ==
    (CmpDone /\ BadHostList)
    => /\ NoEffects
       /\ IF cargs.disableStep /\ RequiredArgsPresent
          THEN cmp.status = "OK" /\ cmp.code = "DISABLED"
          ELSE cmp.status = "ERROR"

\* witness of C5: an enabled run with three hosts, a service name and a token
\* on offer, that ended in ERROR
C5_Witness ==
    /\ CmpDone /\ RequiredArgsPresent /\ ~cargs.disableStep
    /\ Len(ParsedHosts) = 3 /\ TokenObtained /\ WriteCanSucceed
    /\ cmp.status = "ERROR"

\* C8: for a valid host list h0..h(2n-1), a token obtained and every fetch
\* successful, the report has exactly 2n entries in host-list order, entry 2k
\* for h(2k) with its cartridges not in h(2k+1), entry 2k+1 for h(2k+1) with
\* its cartridges not in h(2k); and that report is what the file holds when
\* the write succeeds.
C8_ReportPairsInOrder ==
    (CmpDone /\ ReachesLoop /\ \A i \in 1..Len(ParsedHosts) : ~FetchFails(ParsedHosts[i]))
    => /\ cmp.status = "OK"
       /\ cmp.report.siteId = cenv.siteId
       /\ cmp.report.elementsToReport =
            [i \in 1..Len(ParsedHosts) |->
                LET partner == IF i % 2 = 1 THEN i + 1 ELSE i - 1
                IN  [hostInstance |-> ParsedHosts[i],
                     cartridgediff |-> NotIn(CartridgesOf(ParsedHosts[i]),
                                             CartridgesOf(ParsedHosts[partner]))]]
       /\ (WriteCanSucceed => ReportOnDisk(cmp.report))

\* witness of C8: two pairs (h1,h2), (h3,h1) where h2 and h3 hold the same
\* cartridges, so a comparison across the pairs would have found nothing
C8_Witness ==
    /\ CmpDone /\ cmp.status = "OK" /\ WriteCanSucceed
    /\ ParsedHosts = <<"h1", "h2", "h3", "h1">>
    /\ cenv.resp["h1"] = ROk(RawA) /\ cenv.resp["h2"] = ROk(RawB)
    /\ cenv.resp["h3"] = ROk(RawB)
    /\ cmp.report.elementsToReport =
         << [hostInstance |-> "h1", cartridgediff |-> <<"a", "c">>],
            [hostInstance |-> "h2", cartridgediff |-> <<"d">>],
            [hostInstance |-> "h3", cartridgediff |-> <<"d">>],
            [hostInstance |-> "h1", cartridgediff |-> <<"a", "c">>] >>
    /\ ReportOnDisk(cmp.report)

(* ---------------------------------------------------------------------- *)
(* Claims about the notification step (Spec)                               *)
(* ---------------------------------------------------------------------- *)
NtfDone == ntf.status # "idle"

(* a directory entry named cartridge_difference_<today>....json *)
IsReportNameOfToday(n) ==
    n.prefix = "cartridge_difference_" /\ n.date = today /\ n.ext = ".json"

(* today's matching files the last notification run found, by what they held *)
MalformedBefore ==
    {n \in DOMAIN ntf.before :
        IsReportNameOfToday(n) /\ ntf.before[n].content.kind # "json"}

WellFormedBefore ==
    {n \in DOMAIN ntf.before :
        IsReportNameOfToday(n) /\ ntf.before[n].content.kind = "json"}

(* the last notification run got as far as the call of sendMail and the *)
(* mail could not be rendered or sent                                   *)
DispatchFailed ==
    /\ NtfDone /\ folderKind = "dir" /\ WellFormedBefore # {}
    /\ ntf.hasEmailTo /\ ntf.mailFault # "none"

\* C2: if the e-mail dispatch fails inside sendMail, the notification step
\* returns ERROR and moves no file: the working folder and archive/ are as
\* they were before the run.
C2_FailedDispatchIsErrorAndKeepsFiles ==
    DispatchFailed
    => /\ ntf.status = "ERROR"
       /\ wfiles = ntf.before
       /\ archive = ntf.archiveBefore

IsDiffVariant(m) ==
    m.subject = EmailSubject /\ m.template = ConfiguredTemplate /\ m.context # <<>>

IsNoDiffVariant(m) ==
    m.subject = EmailSubjectWithoutDiff /\ m.template = NotFoundTemplate
    /\ m.context = <<>>

C6_ConsumedOnceThenArchived ==
    /\ reread = {}
    /\ \A c \in consumed :
        /\ ~(c.name \in DOMAIN wfiles /\ wfiles[c.name].id = c.id)
        /\ archive.exists
        /\ c.name \in DOMAIN archive.files
        /\ archive.files[c.name].id = c.id

(* some cartridgediff of some entry of some well-formed report of today is *)
(* not empty                                                               *)
AnyDifferenceBefore ==
    \E n \in WellFormedBefore :
        LET e == ntf.before[n].content.data.elementsToReport
        IN  \E j \in 1..Len(e) : e[j].cartridgediff # <<>>

\* C9: in a notification run that reaches the e-mail dispatch, hasDiffData is
\* true iff at least one cartridgediff over all aggregated reports and all
\* their entries is non-empty; the diff subject and the configured template
\* go with hasDiffData true, the without-diff subject and the
\* difference-not-found template with hasDiffData false.
C9_HasDiffDataSelectsVariant ==
    (NtfDone /\ ntf.reached = "dispatch")
    => /\ ntf.hasDiffData <=> AnyDifferenceBefore
       /\ ntf.sendCalled =>
            /\ ntf.hasDiffData  => IsDiffVariant(ntf.mail)
            /\ ~ntf.hasDiffData => IsNoDiffVariant(ntf.mail)
            /\ IsDiffVariant(ntf.mail) => ntf.hasDiffData

\* witness of C9: a dispatched diff e-mail where every aggregated report has
\* its first two entries empty, the difference being in a later entry
C9_Witness ==
    /\ NtfDone /\ ntf.sendCalled /\ ntf.sent /\ ntf.hasDiffData
    /\ IsDiffVariant(ntf.mail)
    /\ \A i \in 1..Len(ntf.combinedResults) :
          /\ Len(ntf.combinedResults[i].elementsToReport) > 2
          /\ ntf.combinedResults[i].maxLen = 0

(* the well-formed reports of today in the order of the directory listing *)
ExpectedAggregate ==
    LET names == SelectSeq(ntf.files, LAMBDA n : n \in WellFormedBefore)
    IN  [i \in 1..Len(names) |-> ntf.before[names[i]].content.data]

StripMaxLen(results) ==
    [i \in 1..Len(results) |->
        [siteId |-> results[i].siteId,
         elementsToReport |-> results[i].elementsToReport]]

\* C10: when today's matching files hold some that fail to parse and at least
\* one well-formed report, the malformed files are skipped without aborting the
\* run, the aggregate is exactly the well-formed reports of today, each once,
\* in directory-listing order, and the step does not return ERROR because of
\* the malformed files (it does only when emailTo is missing).
C10_MalformedFilesAreSkipped ==
    (NtfDone /\ folderKind = "dir" /\ MalformedBefore # {} /\ WellFormedBefore # {})
    => /\ ntf.reached = "dispatch"
       /\ StripMaxLen(ntf.combinedResults) = ExpectedAggregate
       /\ Len(ntf.combinedResults) = Cardinality(WellFormedBefore)
       /\ (ntf.status = "ERROR" <=> ~ntf.hasEmailTo)
       /\ (ntf.hasEmailTo => ntf.sendCalled)
       /\ (ntf.sendCalled /\ ntf.hasDiffData => ntf.mail.context = ntf.combinedResults)

\* witness of C10: a run over one malformed and two well-formed files of
\* today, listed with a malformed file first, that sent its e-mail
C10_Witness ==
    /\ NtfDone /\ ntf.status = "OK" /\ ntf.sent
    /\ MalformedBefore # {} /\ Cardinality(WellFormedBefore) = 2
    /\ Len(ntf.combinedResults) = 2
    /\ ntf.files[1] \in MalformedBefore \cup {ArchiveName}
    /\ \E i \in 1..Len(ntf.files) : \E k \in 1..Len(ntf.files) :
          i < k /\ ntf.files[i] \in MalformedBefore /\ ntf.files[k] \in WellFormedBefore

(* ---------------------------------------------------------------------- *)
(* C11                                                                    *)
(* ---------------------------------------------------------------------- *)
(* the last notification run returned before the e-mail dispatch: folder *)
(* missing or not a directory, folder empty, no parseable report of today *)
ReturnedBeforeDispatch ==
    \/ ntf.folderBefore # "dir"
    \/ (DOMAIN ntf.before = {} /\ ~ntf.archiveBefore.exists)
    \/ WellFormedBefore = {}

(* an entry left where it was, with the file it held *)
KeptIn(n, old, new) == n \in DOMAIN new /\ new[n] = old[n]

\* C11: the notification step never reads, moves, renames or deletes a
\* directory entry whose name does not start with cartridge_difference_<today>
\* and end with .json (reports of other days, the archive directory, other
\* files); and a run that returns before the e-mail dispatch (folder missing
\* or not a directory, empty, or without a parseable report of today) leaves
\* the working folder and archive/ exactly as they were.
C11_OnlyTodaysReportsAreTouched ==
    NtfDone
    => /\ \A i \in 1..Len(ntf.read) : IsReportNameOfToday(ntf.read[i])
       /\ \A n \in DOMAIN ntf.before :
            ~IsReportNameOfToday(n)
            => KeptIn(n, ntf.before, ntf.after) /\ KeptIn(n, ntf.before, wfiles)
       /\ \A n \in DOMAIN ntf.archiveBefore.files :
            ~IsReportNameOfToday(n)
            => KeptIn(n, ntf.archiveBefore.files, ntf.archiveAfter.files)
       /\ (ntf.archiveBefore.exists => ntf.archiveAfter.exists /\ archive.exists)
       /\ (ReturnedBeforeDispatch
            => /\ ntf.after = ntf.before
               /\ ntf.archiveAfter = ntf.archiveBefore
               /\ ~ntf.sendCalled)

\* witness of C11: a run that mailed and archived a report of today while a
\* report of the day before and a .tmp file of today stayed in the folder
C11_Witness ==
    /\ NtfDone /\ ntf.sendCalled
    /\ YesterdayName \in DOMAIN ntf.before /\ ScratchName \in DOMAIN ntf.before
    /\ YesterdayName \in DOMAIN wfiles /\ ScratchName \in DOMAIN wfiles
    /\ \E n \in WellFormedBefore :
          n \notin DOMAIN ntf.after /\ n \in DOMAIN ntf.archiveAfter.files
    /\ Len(ntf.read) > 0

====
